---- MODULE Spec2Model ----
(***************************************************************************)
(* Model of the Kubernetes runtime of sealer: the master join pipeline     *)
(* (Runtime.joinMasters) and the master deletion fan-out                   *)
(* (Runtime.deleteMasters), with the errgroup fan-outs, the runtime mutex  *)
(* and the remote executor's fallible calls.                               *)
(***************************************************************************)
EXTENDS Integers, Sequences, FiniteSets, TLC

\* ------------------------------------------------------------------ bounds
\* Largest number of target masters of one joinMasters / deleteMasters call.
MaxTargets == 2
\* Largest number of worker nodes of the cluster.
MaxNodes == 2
\* Largest number of deleted masters and worker nodes together: the size of
\* the two nested fan-outs of deleteMasters.
MaxFan == 3
\* Longest output of the upload-certs command, in symbols.
MaxOut == 3

\* ------------------------------------------------------- program constants
\* k.cluster.GetMaster0IP(): the bootstrap master is host 1 of the model.
Master0 == 1
\* WaitSSHReady(6, masters...)
TryTimes == 6

V1149 == <<1, 14, 9>>
V1151 == <<1, 15, 1>>
V1150 == <<1, 15, 0>>
V1991 == <<1, 19, 1>>
V1992 == <<1, 19, 2>>
V1230 == <<1, 23, 0>>

ROOT == "root"

\* Hosts: master0, then the machines a call can target, then the workers.
Targets == 2..(MaxTargets + 1)
Nodes == (MaxTargets + 2)..(MaxTargets + 1 + MaxNodes)
Hosts == {Master0} \cup Targets \cup Nodes
\* The address of no host (a nil net.IP): below every host.
NoHost == Master0 - 1

\* ------------------------------------------------------------------- state
VARIABLES
    op,             \* the operation of this run: "join" | "delete"
    masters,        \* the argument of joinMasters / deleteMasters
    pc,             \* position of the calling goroutine
    err,            \* the operation's return value, once pc = "done"
    idx,            \* loop index of the sequential loops of joinMasters
    attempt,        \* pings of masters[idx] done so far in WaitSSHReady
    cmdIdx,         \* commands of the CmdAsync bundle already run
    joinCmd,        \* cmd of joinMasters: the rendered kubeadm join command
    cmds,           \* the command bundle of the master being joined
    next,           \* hosts the current fan-out loop has passed to eg.Go
    task,           \* task[s][h]: position of the goroutine of stage s for host h
    egErr,          \* the errgroup's first error (errOnce)
    mutex,          \* holder of k.Mutex, NoHost when free
    cfg,            \* kubeVersion, RegConfig credentials, SSH user, Vlog, container
    cred,           \* CertificateKey, JoinToken, TokenCaCertHash
    tmpl,           \* k.JoinConfiguration / k.KubeletConfiguration as stamped
    joinConfig,     \* joinConfig[h]: bytes joinMasterConfig returned to h's worker
    probed,         \* probed[h]: cgroup driver the probe of h reported
    written,        \* written[h]: config document written to host h
    executed,       \* executed[h]: commands run on h by the join loop
    returned,       \* hosts whose CmdAsync call of the join loop has returned
    calls,          \* counters of the credential fetch calls, per host
    outputs,        \* what the two credential fetch commands printed
    patched,        \* hosts the kubeconfig quirk patch was issued to
    patchErr,       \* hosts on which the quirk patch failed
    lockedIO,       \* remote calls made while holding k.Mutex
    cluster,        \* masterIPs, nodeIPs and the local execution host
    dpc,            \* dpc[m]: position of the deleteMaster goroutine of master m
    dres,           \* dres[m]: what deleteMaster(m) returned
    nnext,          \* nnext[m]: workers deleteMaster(m) has passed to eg.Go
    ntask,          \* ntask[m][n]: position of the manifest task of m for node n
    nerr,           \* nerr[m]: first error of the errgroup of deleteMaster(m)
    bundle,         \* bundle[m]: cleanup commands sent to master m
    nodeName,       \* nodeName[m]: the name isHostName resolved for m
    deleted,        \* the `kubectl delete node` commands issued
    manifest,       \* manifest[n]: backends of the manifest last written to n
    crashed,        \* the process died of a nil pointer dereference
    call,           \* the arguments of the function evaluated on its own
    result,         \* what that function returned
    htask           \* htask[h]: position of the CmdAsyncHosts task of host h

vars == <<op, masters, pc, err, idx, attempt, cmdIdx, joinCmd, cmds, next, task,
          egErr, mutex, cfg, cred, tmpl, joinConfig, probed, written, executed,
          returned, calls, outputs, patched, patchErr, lockedIO, cluster, dpc,
          dres, nnext, ntask,
          nerr, bundle, nodeName, deleted, manifest, crashed, call, result,
          htask>>

NoErr == [kind |-> "nil", host |-> NoHost]
Error(kind, h) == [kind |-> kind, host |-> h]

NoDoc == [advertise |-> NoHost, cgroup |-> "", endpoint |-> NoHost, token |-> 0]

\* ----------------------------------------------------------- pure helpers
IndexSet(s) == 1..Len(s)
Range(s) == {s[i] : i \in IndexSet(s)}

\* versionUtils.Version(version).Compare(V1150): version >= other; a version
\* that does not parse gives false, with an error.
Parses(v) == Len(v) = 3

CompareBug(v, w) ==
    \/ v[1] > w[1]
    \/ v[1] = w[1] /\ v[2] > w[2]
    \/ v[1] = w[1] /\ v[2] = w[2] /\ v[3] > w[3]

Compare(v, w) ==
    /\ Parses(v)
    /\ \/ v[1] > w[1]
       \/ v[1] = w[1] /\ v[2] > w[2]
       \/ v[1] = w[1] /\ v[2] = w[2] /\ v[3] >= w[3]

\* vlogToStr
vlogToStr(vlog) == [flag |-> "-v", level |-> vlog]

InitMaster == "initMaster"
JoinMaster == "joinMaster"
JoinNode == "joinNode"
CommandTypesWithReset == {InitMaster, JoinMaster, JoinNode, "reset"}

CommandTypes == {InitMaster, JoinMaster, JoinNode}

\* k.getVIP(): the virtual address of the API server, no machine of the model.
VIP == NoHost - 1

\* A command string, by its parts: `kubeadm <verb>`, --config=<rootfs>/etc/
\* kubeadm.yml, the upload-certs flag, <host>:6443, --token,
\* --discovery-token-ca-cert-hash, --experimental-control-plane,
\* --certificate-key, then -v and --ignore-preflight-errors.  The empty
\* string has none of them.
NoCommand == [verb |-> "", config |-> FALSE, certs |-> "", host |-> NoHost,
              token |-> 0, hash |-> 0, controlPlane |-> FALSE, key |-> 0,
              vlog |-> [flag |-> "", level |-> 0], preflight |-> ""]

\* InitMaster115Lower, JoinMaster115Lower, JoinNode115Lower: the joins carry
\* explicit flags with the credentials interpolated, the init does not.
Lower(name, c, k) ==
    CASE name = InitMaster ->
            [NoCommand EXCEPT !.verb = "init", !.config = TRUE,
                              !.certs = "--experimental-upload-certs"]
      [] name = JoinMaster ->
            [NoCommand EXCEPT !.verb = "join", !.host = Master0,
                              !.token = k.JoinToken,
                              !.hash = k.TokenCaCertHash,
                              !.controlPlane = TRUE,
                              !.key = k.CertificateKey]
      [] OTHER ->
            [NoCommand EXCEPT !.verb = "join", !.host = VIP,
                              !.token = k.JoinToken,
                              !.hash = k.TokenCaCertHash]

\* InitMaser115Upper, JoinMaster115Upper, JoinNode115Upper:
\* --config=<rootfs>/etc/kubeadm.yml.
Upper(name, c) ==
    IF name = InitMaster
    THEN [NoCommand EXCEPT !.verb = "init", !.config = TRUE,
                           !.certs = "--upload-certs"]
    ELSE [NoCommand EXCEPT !.verb = "join", !.config = TRUE]

\* Runtime.Command, lines 365-372: the preflight flag appended after -v.
PreflightEveryRole(name, c) ==
    IF c.inContainer THEN "all" ELSE "SystemVerification"

Preflight(name, c) ==
    IF c.inContainer THEN "all"
    ELSE IF name = InitMaster \/ name = JoinMaster THEN "SystemVerification"
    ELSE ""

\* Runtime.Command
Command(version, name, c, k) ==
    IF name \notin CommandTypes THEN NoCommand
    ELSE LET v == IF Compare(version, V1150) THEN Upper(name, c)
                  ELSE Lower(name, c, k)
         IN [v EXCEPT !.vlog = vlogToStr(c.Vlog),
                      !.preflight = Preflight(name, c)]

Cmd(o, a, b) == [op |-> o, a |-> a, b |-> b]

\* Runtime.JoinMasterCommands, with the kubeadm command as the record jc.
JoinMasterCommandsSwapped(master, jc, c) ==
    <<Cmd("addRegistryHosts", NoHost, NoHost),
      Cmd("remoteCerts", master, NoHost),
      Cmd("addEtcHosts", Master0, NoHost)>>
    \o (IF c.Username /\ c.Password
        THEN <<Cmd("registryLogin", NoHost, NoHost)>> ELSE <<>>)
    \o <<Cmd("updateEtcHosts", Master0, master),
         Cmd("kubeadm", jc, NoHost),
         Cmd("copyKubeConfig", NoHost, NoHost)>>

JoinMasterCommands(master, jc, c) ==
    <<Cmd("addRegistryHosts", NoHost, NoHost),
      Cmd("remoteCerts", master, NoHost),
      Cmd("addEtcHosts", Master0, NoHost)>>
    \o (IF c.Username /\ c.Password
        THEN <<Cmd("registryLogin", NoHost, NoHost)>> ELSE <<>>)
    \o <<Cmd("kubeadm", jc, NoHost),
         Cmd("updateEtcHosts", Master0, master),
         Cmd("copyKubeConfig", NoHost, NoHost)>>

\* joinMasters, lines 424-426: the non-root kubeconfig copy is appended last.
WithNonRoot(cs, c) ==
    IF c.User # ROOT THEN Append(cs, Cmd("nonRootCopyKubeConfig", NoHost, NoHost))
    ELSE cs

\* ------------------------------------------------------ the join pipeline
\* The errgroup fan-outs of joinMasters, in the order of the calls.
FanStages == <<"CopyStaticFiles",
               "sendKubeConfigFile_admin",
               "sendKubeConfigFile_controller",
               "sendKubeConfigFile_scheduler",
               "sendRegistryCert_domain",
               "sendRegistryCert_seahub",
               "sendNewCertAndKey",
               "sendJoinCPConfig">>
FanSet == Range(FanStages)
FileStages == FanSet \ {"sendJoinCPConfig"}
StageNo(s) == CHOOSE i \in IndexSet(FanStages) : FanStages[i] = s

Finished == {"ok", "fail"}
NewTasks == [s \in FanSet |-> [h \in Hosts |-> "new"]]

\* eg.Wait(): every function passed to eg.Go has returned.
AllReturnedNoWait(s) == next = Len(masters)

AllReturnedFailFast(s) ==
    /\ next = Len(masters)
    /\ egErr # NoErr \/ \A h \in Range(masters) : task[s][h] \in Finished

AllReturned(s) ==
    /\ next = Len(masters)
    /\ \A h \in Range(masters) : task[s][h] \in Finished

\* errgroup: the first non-nil error of a task is the group's error.
FirstErrorDropped(e) == egErr

FirstError(e) == IF egErr = NoErr THEN e ELSE egErr

Return(e) == /\ pc' = "done"
             /\ err' = e

\* Variables of the fan-outs, of the join loop and of the observations.
fanVars == <<next, task, egErr>>
lockVars == <<mutex, tmpl, joinConfig, probed, written, lockedIO>>
loopVars == <<idx, attempt, cmdIdx, joinCmd, cmds>>
execVars == <<executed, returned>>
joinVars == <<idx, attempt, cmdIdx, joinCmd, cmds, next, task, egErr, mutex,
              cred, tmpl, joinConfig, probed, written, executed, returned,
              calls, outputs, patched, patchErr, lockedIO>>
delVars == <<cluster, dpc, dres, nnext, ntask, nerr, bundle, nodeName, deleted,
             manifest, crashed>>
\* The credentials, their fetch and the quirk patch: set before the join loop.
fetchVars == <<cred, calls, outputs, patched, patchErr>>
\* Variables of the evaluation of one function on its own.
pureVars == <<call, result, htask>>

NoCalls == [h \in Hosts |-> [upload |-> 0, token |-> 0]]

Configs == [kubeVersion : {V1149, V1991, V1992, V1230},
            Username : BOOLEAN, Password : BOOLEAN,
            User : {ROOT, "admin"}, Vlog : {0}, inContainer : {FALSE}]

\* The configurations of a join: every registry login and SSH user with
\* v1.23.0, and the other versions with the longest command bundle.
JoinConfigs ==
    {c \in Configs :
        c.kubeVersion # V1230 => c.Username /\ c.Password /\ c.User # ROOT}

TargetLists == {[i \in 1..n |-> i + 1] : n \in 0..MaxTargets}

\* The credentials before GetJoinTokenHashAndKey, and no call of Command.
NoCred == [CertificateKey |-> 0, JoinToken |-> 0, TokenCaCertHash |-> 0]
NoCall == [version |-> <<>>, name |-> ""]

InitCommon ==
    /\ pc = "start"
    /\ err = NoErr
    /\ idx = 0
    /\ attempt = 0
    /\ cmdIdx = 0
    /\ joinCmd = NoCommand
    /\ cmds = <<>>
    /\ next = 0
    /\ task = NewTasks
    /\ egErr = NoErr
    /\ mutex = NoHost
    /\ tmpl = NoDoc
    /\ joinConfig = [h \in Hosts |-> NoDoc]
    /\ probed = [h \in Hosts |-> ""]
    /\ written = [h \in Hosts |-> NoDoc]
    /\ executed = [h \in Hosts |-> <<>>]
    /\ returned = {}
    /\ calls = NoCalls
    /\ outputs = [upload |-> "", token |-> ""]
    /\ patched = {}
    /\ patchErr = {}
    /\ result = NoCommand
    /\ htask = [h \in Hosts |-> "new"]
    /\ lockedIO = {}
    /\ dpc = [m \in Hosts |-> "new"]
    /\ dres = [m \in Hosts |-> "none"]
    /\ nnext = [m \in Hosts |-> 0]
    /\ ntask = [m \in Hosts |-> [n \in Hosts |-> "new"]]
    /\ nerr = [m \in Hosts |-> NoErr]
    /\ bundle = [m \in Hosts |-> <<>>]
    /\ nodeName = [m \in Hosts |-> ""]
    /\ deleted = {}
    /\ manifest = [n \in Hosts |-> <<>>]
    /\ crashed = FALSE

InitJoin ==
    /\ op = "join"
    /\ cred = NoCred
    /\ call = NoCall
    /\ masters \in TargetLists
    /\ cfg \in JoinConfigs
    /\ cluster = [masterIPs |-> <<Master0>>, nodeIPs |-> <<>>, local |-> NoHost,
                  addrErr |-> FALSE]
    /\ InitCommon

\* ------------------------------------------------------------ joinMasters
\* joinMasters, lines 376-378: an empty target list returns nil at once.
NoTargetsNever(ms) == FALSE

NoTargets(ms) == Len(ms) = 0

JoinStart ==
    /\ op = "join"
    /\ pc = "start"
    /\ IF NoTargets(masters)
       THEN Return(NoErr)
       ELSE pc' = "MergeKubeadmConfig" /\ err' = err
    /\ UNCHANGED <<delVars, pureVars>>
    /\ UNCHANGED <<op, masters, cfg, fetchVars>>
    /\ UNCHANGED <<fanVars, lockVars, loopVars, execVars>>

\* joinMasters, lines 380-382: MergeKubeadmConfig is local and may fail.
MergeKubeadmConfig ==
    /\ pc = "MergeKubeadmConfig"
    /\ \E ok \in BOOLEAN :
          IF ok
          THEN pc' = "WaitSSHReady" /\ err' = err /\ idx' = 1
          ELSE Return(Error("mergeKubeadmConfig", NoHost)) /\ idx' = idx
    /\ UNCHANGED <<delVars, pureVars>>
    /\ UNCHANGED <<op, masters, cfg, fetchVars, attempt, cmdIdx,
                   joinCmd, cmds>>
    /\ UNCHANGED <<fanVars, lockVars, execVars>>

\* joinMasters, lines 383-385: the wait's error is wrapped and returned.
WaitTimeoutIgnored(h) == pc' = "uploadCerts" /\ err' = err

WaitTimeout(h) == Return(Error("sshReadyTimeout", h))

\* WaitSSHReady: each target is pinged at most TryTimes times.
WaitSSHReady ==
    /\ pc = "WaitSSHReady"
    /\ \E ok \in BOOLEAN :
          IF ok
          THEN /\ attempt' = 0
               /\ err' = err
               /\ IF idx = Len(masters)
                  THEN pc' = "uploadCerts" /\ idx' = 0
                  ELSE pc' = pc /\ idx' = idx + 1
          ELSE /\ attempt' = attempt + 1
               /\ idx' = idx
               /\ IF attempt + 1 = TryTimes
                  THEN WaitTimeout(masters[idx])
                  ELSE pc' = pc /\ err' = err
    /\ UNCHANGED <<delVars, pureVars>>
    /\ UNCHANGED <<op, masters, cfg, fetchVars, cmdIdx, joinCmd, cmds>>
    /\ UNCHANGED <<fanVars, lockVars, execVars>>

\* GetJoinTokenHashAndKey runs both commands on k.cluster.GetMaster0IP().
FetchHostTarget == masters[1]

FetchHost == Master0

\* The outputs of the upload-certs command: the command fails, or its output
\* holds 0, 1 or 2 "Using certificate key:" markers.
UploadOutputs == {"error", "markers0", "markers1", "markers2"}

\* GetJoinTokenHashAndKey, lines 551-568.
UploadCerts ==
    /\ pc = "uploadCerts"
    /\ calls' = [calls EXCEPT ![FetchHost].upload = @ + 1]
    /\ \E out \in UploadOutputs :
          /\ outputs' = [outputs EXCEPT !.upload = out]
          /\ CASE out = "error" ->
                    Return(Error("uploadCerts", FetchHost)) /\ cred' = cred
               [] out = "markers1" ->
                    /\ cred' = [cred EXCEPT
                                   !.CertificateKey = calls'[FetchHost].upload]
                    /\ pc' = "tokenClient"
                    /\ err' = err
               [] OTHER ->
                    Return(Error("certificateKey", FetchHost)) /\ cred' = cred
    /\ UNCHANGED <<delVars, pureVars>>
    /\ UNCHANGED <<op, masters, cfg, patched, patchErr>>
    /\ UNCHANGED <<fanVars, lockVars, loopVars, execVars>>

\* GetJoinTokenHashAndKey, lines 573 and 577: the error returns leave
\* k.CertificateKey, stored on line 568, as it is.
CredOnTokenErrorDiscarded == NoCred

CredOnTokenError == cred

\* GetJoinTokenHashAndKey, lines 571-574.
TokenClient ==
    /\ pc = "tokenClient"
    /\ \E ok \in BOOLEAN :
          IF ok
          THEN pc' = "tokenCreate" /\ err' = err /\ cred' = cred
          ELSE Return(Error("sshClient", FetchHost)) /\ cred' = CredOnTokenError
    /\ UNCHANGED <<delVars, pureVars>>
    /\ UNCHANGED <<op, masters, cfg, calls, outputs, patched, patchErr>>
    /\ UNCHANGED <<fanVars, lockVars, loopVars, execVars>>

\* The outputs of the token create command: the command fails, or it prints
\* a join command, or it prints text that holds no join command.
TokenOutputs == {"error", "joinCommand", "malformed"}

\* What GetJoinTokenHashAndKey does once the token command has printed `out`:
\* k.decodeMaster0Output(out) has no result, line 580, and line 582 returns
\* nil, so joinMasters goes on to CopyStaticFiles.
Decoded(out) == pc' = FanStages[1] /\ err' = err

\* GetJoinTokenHashAndKey, lines 575-582: decodeMaster0Output stores the token
\* and the CA cert hash it finds in the output, also in the join configuration.
TokenCreate ==
    /\ pc = "tokenCreate"
    /\ calls' = [calls EXCEPT ![FetchHost].token = @ + 1]
    /\ \E out \in TokenOutputs :
          /\ outputs' = [outputs EXCEPT !.token = out]
          /\ CASE out = "error" ->
                    /\ Return(Error("tokenCreate", FetchHost))
                    /\ cred' = CredOnTokenError
                    /\ tmpl' = tmpl
               [] out = "joinCommand" ->
                    /\ cred' = [cred EXCEPT
                                   !.JoinToken = calls'[FetchHost].token,
                                   !.TokenCaCertHash = calls'[FetchHost].token]
                    /\ tmpl' = [tmpl EXCEPT !.token = calls'[FetchHost].token]
                    /\ Decoded(out)
               [] OTHER ->
                    /\ Decoded(out)
                    /\ UNCHANGED <<cred, tmpl>>
    /\ UNCHANGED <<delVars, pureVars>>
    /\ UNCHANGED <<op, masters, cfg, patched, patchErr, mutex, joinConfig, probed,
                   written, lockedIO>>
    /\ UNCHANGED <<fanVars, loopVars, execVars>>

\* ------------------------------------------------------- errgroup fan-outs
\* The first position of a task eg.Go starts: sendFileToHosts acquires the SSH
\* client, sendJoinCPConfig calls joinMasterConfig, which takes the lock.
FirstStep(s) == IF s \in FileStages THEN "client" ELSE "lock"

\* The for loops of sendFileToHosts and sendJoinCPConfig: eg.Go is called for
\* every host of the list, whatever the tasks already started have returned.
Go ==
    /\ pc \in FanSet
    /\ next < Len(masters)
    /\ next' = next + 1
    /\ task' = [task EXCEPT ![pc][masters[next + 1]] = FirstStep(pc)]
    /\ UNCHANGED <<delVars, pureVars>>
    /\ UNCHANGED <<op, masters, pc, err, cfg, fetchVars, egErr>>
    /\ UNCHANGED <<lockVars, loopVars, execVars>>

TaskFails(s, h, kind) ==
    /\ task' = [task EXCEPT ![s][h] = "fail"]
    /\ egErr' = FirstError(Error(kind, h))

\* sendFileToHosts, lines 229-232.
FileClient(s, h) ==
    /\ s \in FileStages
    /\ task[s][h] = "client"
    /\ \E ok \in BOOLEAN :
          IF ok
          THEN task' = [task EXCEPT ![s][h] = "copy"] /\ egErr' = egErr
          ELSE TaskFails(s, h, "sendFile")
    /\ UNCHANGED <<delVars, pureVars>>
    /\ UNCHANGED <<op, masters, pc, err, cfg, fetchVars, next>>
    /\ UNCHANGED <<lockVars, loopVars, execVars>>

\* sendFileToHosts, lines 233-236.
FileCopy(s, h) ==
    /\ s \in FileStages
    /\ task[s][h] = "copy"
    /\ \E ok \in BOOLEAN :
          IF ok
          THEN task' = [task EXCEPT ![s][h] = "ok"] /\ egErr' = egErr
          ELSE TaskFails(s, h, "sendFile")
    /\ UNCHANGED <<delVars, pureVars>>
    /\ UNCHANGED <<op, masters, pc, err, cfg, fetchVars, next>>
    /\ UNCHANGED <<lockVars, loopVars, execVars>>

\* ReplaceKubeConfigV1991V1992, line 244.
Quirky(version) == version = V1991 \/ version = V1992

\* The statement of joinMasters that follows the fan-out s.
AfterStagePatchLate(s) ==
    CASE s = "sendJoinCPConfig" ->
            IF Quirky(cfg.kubeVersion) THEN "ReplaceClient" ELSE "Command"
      [] OTHER -> FanStages[StageNo(s) + 1]

AfterStage(s) ==
    CASE s = "sendKubeConfigFile_scheduler" ->
            IF Quirky(cfg.kubeVersion) THEN "ReplaceClient"
            ELSE "sendRegistryCert_domain"
      [] s = "sendJoinCPConfig" -> "Command"
      [] OTHER -> FanStages[StageNo(s) + 1]

\* return eg.Wait(), and the caller's `if err != nil { return err }`.
Wait ==
    /\ pc \in FanSet
    /\ AllReturned(pc)
    /\ IF egErr = NoErr
       THEN /\ pc' = AfterStage(pc)
            /\ err' = err
            /\ idx' = IF AfterStage(pc) = "ReplaceClient" THEN 1 ELSE idx
       ELSE Return(egErr) /\ idx' = idx
    /\ next' = 0
    /\ egErr' = NoErr
    /\ UNCHANGED <<delVars, pureVars>>
    /\ UNCHANGED <<op, masters, cfg, fetchVars, task, attempt,
                   cmdIdx, joinCmd, cmds>>
    /\ UNCHANGED <<lockVars, execVars>>

\* ReplaceKubeConfigV1991V1992, lines 245-251: a failure returns false, which
\* SendJoinMasterKubeConfigs only uses to log.
PatchFailureFatal(h) ==
    /\ patchErr' = patchErr \cup {h}
    /\ Return(Error("replaceKubeConfig", h))

PatchFailure(h) ==
    /\ patchErr' = patchErr \cup {h}
    /\ pc' = "sendRegistryCert_domain"
    /\ err' = err

ReplaceClient ==
    /\ pc = "ReplaceClient"
    /\ \E ok \in BOOLEAN :
          IF ok
          THEN pc' = "ReplaceCmd" /\ UNCHANGED <<err, patchErr>>
          ELSE PatchFailure(masters[idx])
    /\ UNCHANGED <<delVars, pureVars>>
    /\ UNCHANGED <<op, masters, cfg, cred, calls, outputs, patched>>
    /\ UNCHANGED <<fanVars, lockVars, loopVars, execVars>>

\* ReplaceKubeConfigV1991V1992, lines 252-257.
ReplaceCmd ==
    /\ pc = "ReplaceCmd"
    /\ patched' = patched \cup {masters[idx]}
    /\ \E ok \in BOOLEAN :
          IF ok
          THEN /\ IF idx < Len(masters)
                  THEN pc' = "ReplaceClient" /\ idx' = idx + 1
                  ELSE pc' = "sendRegistryCert_domain" /\ idx' = idx
               /\ UNCHANGED <<err, patchErr>>
          ELSE PatchFailure(masters[idx]) /\ idx' = idx
    /\ UNCHANGED <<delVars, pureVars>>
    /\ UNCHANGED <<op, masters, cfg, cred, calls, outputs, attempt, cmdIdx,
                   joinCmd, cmds>>
    /\ UNCHANGED <<fanVars, lockVars, execVars>>

\* --------------------------------------------------------- sendJoinCPConfig
Render == "sendJoinCPConfig"

\* k.Lock(), line 276.
CanLockAlways(h) == TRUE

CanLock(h) == mutex = NoHost

\* defer k.Unlock(), line 277: the lock is released when joinMasterConfig returns.
HolderOnReturnKept(h) == h

HolderOnReturn(h) == NoHost

\* The remote calls made by the worker of h while it holds the lock.
Locked(kind, h) == IF mutex = h THEN {<<kind, h>>} ELSE {}

\* joinMasterConfig, lines 276-280.
Lock(h) ==
    /\ task[Render][h] = "lock"
    /\ CanLock(h)
    /\ mutex' = h
    /\ tmpl' = [tmpl EXCEPT !.endpoint = Master0, !.advertise = h]
    /\ task' = [task EXCEPT ![Render][h] = "probe"]
    /\ UNCHANGED <<delVars, pureVars>>
    /\ UNCHANGED <<op, masters, pc, err, cfg, fetchVars, next,
                   egErr, joinConfig, probed, written, lockedIO>>
    /\ UNCHANGED <<loopVars, execVars>>

CgroupDrivers == {"systemd", "cgroupfs"}

\* joinMasterConfig, lines 281-284: the probe of the target's cgroup driver.
Probe(h) ==
    /\ task[Render][h] = "probe"
    /\ lockedIO' = lockedIO \cup Locked("probe", h)
    /\ \E r \in CgroupDrivers \cup {"error"} :
          IF r = "error"
          THEN /\ TaskFails(Render, h, "joinConfig")
               /\ mutex' = HolderOnReturn(h)
               /\ probed' = probed
          ELSE /\ task' = [task EXCEPT ![Render][h] = "marshal"]
               /\ probed' = [probed EXCEPT ![h] = r]
               /\ UNCHANGED <<egErr, mutex>>
    /\ UNCHANGED <<delVars, pureVars>>
    /\ UNCHANGED <<op, masters, pc, err, cfg, fetchVars, next,
                   tmpl, joinConfig, written>>
    /\ UNCHANGED <<loopVars, execVars>>

\* joinMasterConfig, lines 285-286: stamp the driver, marshal, return.
Marshal(h) ==
    /\ task[Render][h] = "marshal"
    /\ tmpl' = [tmpl EXCEPT !.cgroup = probed[h]]
    /\ joinConfig' = [joinConfig EXCEPT ![h] = tmpl']
    /\ mutex' = HolderOnReturn(h)
    /\ task' = [task EXCEPT ![Render][h] = "client"]
    /\ UNCHANGED <<delVars, pureVars>>
    /\ UNCHANGED <<op, masters, pc, err, cfg, fetchVars, next,
                   egErr, probed, written, lockedIO>>
    /\ UNCHANGED <<loopVars, execVars>>

\* sendJoinCPConfig, lines 300-304.
RenderClient(h) ==
    /\ task[Render][h] = "client"
    /\ \E ok \in BOOLEAN :
          IF ok
          THEN task' = [task EXCEPT ![Render][h] = "write"] /\ egErr' = egErr
          ELSE TaskFails(Render, h, "sshClient")
    /\ UNCHANGED <<delVars, pureVars>>
    /\ UNCHANGED <<op, masters, pc, err, cfg, fetchVars, next>>
    /\ UNCHANGED <<lockVars, loopVars, execVars>>

\* sendJoinCPConfig, lines 305-308: write the rendered document to the target.
RenderWrite(h) ==
    /\ task[Render][h] = "write"
    /\ lockedIO' = lockedIO \cup Locked("write", h)
    /\ \E ok \in BOOLEAN :
          IF ok
          THEN /\ task' = [task EXCEPT ![Render][h] = "ok"]
               /\ written' = [written EXCEPT ![h] = joinConfig[h]]
               /\ egErr' = egErr
          ELSE TaskFails(Render, h, "setJoinConfig") /\ written' = written
    /\ UNCHANGED <<delVars, pureVars>>
    /\ UNCHANGED <<op, masters, pc, err, cfg, fetchVars, next,
                   mutex, tmpl, joinConfig, probed>>
    /\ UNCHANGED <<loopVars, execVars>>

\* ------------------------------------------------------- the join loop
\* joinMasters, lines 405-409.
JoinCommand ==
    /\ pc = "Command"
    /\ joinCmd' = Command(cfg.kubeVersion, JoinMaster, cfg, cred)
    /\ IF joinCmd' = NoCommand
       THEN Return(Error("joinCommand", NoHost)) /\ idx' = idx
       ELSE pc' = "getRemoteHostName" /\ err' = err /\ idx' = 1
    /\ UNCHANGED <<delVars, pureVars>>
    /\ UNCHANGED <<op, masters, cfg, fetchVars, attempt, cmdIdx, cmds>>
    /\ UNCHANGED <<fanVars, lockVars, execVars>>

\* joinMasters, line 411: for _, master := range masters.
JoinTargetReversed(i) == masters[Len(masters) + 1 - i]

JoinTarget(i) == masters[i]

\* joinMasters, lines 414-418.
GetRemoteHostName ==
    /\ pc = "getRemoteHostName"
    /\ \E ok \in BOOLEAN :
          IF ok
          THEN /\ cmds' = JoinMasterCommands(JoinTarget(idx), joinCmd, cfg)
               /\ pc' = "joinClient"
               /\ err' = err
          ELSE Return(Error("hostname", JoinTarget(idx))) /\ cmds' = cmds
    /\ UNCHANGED <<delVars, pureVars>>
    /\ UNCHANGED <<op, masters, cfg, fetchVars, idx, attempt,
                   cmdIdx, joinCmd>>
    /\ UNCHANGED <<fanVars, lockVars, execVars>>

\* joinMasters, lines 419-426.
JoinClient ==
    /\ pc = "joinClient"
    /\ \E ok \in BOOLEAN :
          IF ok
          THEN /\ cmds' = WithNonRoot(cmds, cfg)
               /\ cmdIdx' = 0
               /\ pc' = "CmdAsync"
               /\ err' = err
          ELSE Return(Error("sshClient", JoinTarget(idx)))
               /\ UNCHANGED <<cmds, cmdIdx>>
    /\ UNCHANGED <<delVars, pureVars>>
    /\ UNCHANGED <<op, masters, cfg, fetchVars, idx, attempt, joinCmd>>
    /\ UNCHANGED <<fanVars, lockVars, execVars>>

\* joinMasters, line 429: the error names the master.
JoinExecErrorAnonymous(master) == Error("joinExec", NoHost)

JoinExecError(master) == Error("joinExec", master)

\* joinMasters, lines 428-433: CmdAsync runs the bundle in order and stops at
\* the first command that fails; the loop then returns, or goes on to the
\* next master once the whole bundle has run.
CmdAsync ==
    /\ pc = "CmdAsync"
    /\ LET master == JoinTarget(idx) IN
       /\ executed' = [executed EXCEPT ![master] = Append(@, cmds[cmdIdx + 1])]
       /\ \E ok \in BOOLEAN :
             IF ~ok
             THEN /\ Return(JoinExecError(master))
                  /\ returned' = returned \cup {master}
                  /\ UNCHANGED <<idx, cmdIdx>>
             ELSE IF cmdIdx + 1 < Len(cmds)
             THEN /\ cmdIdx' = cmdIdx + 1
                  /\ UNCHANGED <<pc, err, idx, returned>>
             ELSE /\ returned' = returned \cup {master}
                  /\ cmdIdx' = 0
                  /\ IF idx = Len(masters)
                     THEN Return(NoErr) /\ idx' = idx
                     ELSE pc' = "getRemoteHostName" /\ err' = err /\ idx' = idx + 1
    /\ UNCHANGED <<delVars, pureVars>>
    /\ UNCHANGED <<op, masters, cfg, fetchVars, attempt, joinCmd, cmds>>
    /\ UNCHANGED <<fanVars, lockVars>>

NextJoin ==
    \/ JoinStart
    \/ MergeKubeadmConfig
    \/ WaitSSHReady
    \/ UploadCerts
    \/ TokenClient
    \/ TokenCreate
    \/ Go
    \/ \E s \in FileStages, h \in Targets : FileClient(s, h)
    \/ \E s \in FileStages, h \in Targets : FileCopy(s, h)
    \/ Wait
    \/ ReplaceClient
    \/ ReplaceCmd
    \/ \E h \in Targets : Lock(h)
    \/ \E h \in Targets : Probe(h)
    \/ \E h \in Targets : Marshal(h)
    \/ \E h \in Targets : RenderClient(h)
    \/ \E h \in Targets : RenderWrite(h)
    \/ JoinCommand
    \/ GetRemoteHostName
    \/ JoinClient
    \/ CmdAsync

SpecJoin == InitJoin /\ [][NextJoin]_vars

\* ---------------------------------------------------------- deleteMasters
\* utilsnet.IsLocalIP(master, address), with GetLocalHostAddresses failing or not.
IsLocalIgnoringError(m) == cluster.local = m

IsLocal(m) == ~cluster.addrErr /\ cluster.local = m

\* deleteMaster, lines 489-504: the cleanup bundle and its last command.
CleanBundle(m) ==
    <<Cmd("cleanMasterOrNode", vlogToStr(cfg.Vlog), NoHost),
      Cmd("removeEtcHost", "registryDomain", NoHost),
      Cmd("removeEtcHost", "seaHub", NoHost),
      Cmd("removeRegistryCerts", "registryDomain", NoHost),
      Cmd("removeRegistryCerts", "seaHub", NoHost),
      Cmd("removeEtcHost", "apiServerDomain", NoHost)>>
    \o (IF ~IsLocal(m)
        THEN <<Cmd("removeKubeConfig", NoHost, NoHost)>>
        ELSE <<Cmd("addEtcHosts", Master0, NoHost)>>)

\* deleteMaster, lines 510-515: the masters left once m is excluded.
RemainingWithSelf(m) == cluster.masterIPs

Remaining(m) == SelectSeq(cluster.masterIPs, LAMBDA ip : ip # m)

\* deleteMasters, lines 438-440.
DeleteStart ==
    /\ op = "delete"
    /\ pc = "start"
    /\ IF NoTargets(masters)
       THEN Return(NoErr)
       ELSE pc' = "deleteMasters" /\ err' = err
    /\ UNCHANGED <<op, masters, cfg>>
    /\ UNCHANGED <<joinVars, delVars, pureVars>>

\* deleteMasters, lines 442-444: eg.Go for every master of the list.
DeleteGo ==
    /\ pc = "deleteMasters"
    /\ ~crashed
    /\ next < Len(masters)
    /\ next' = next + 1
    /\ dpc' = [dpc EXCEPT ![masters[next + 1]] = "client"]
    /\ UNCHANGED <<op, masters, pc, err, cfg, cluster, dres, nnext, ntask, nerr,
                   bundle, nodeName, deleted, manifest, crashed>>
    /\ UNCHANGED <<idx, attempt, cmdIdx, joinCmd, cmds, task, egErr, mutex,
                   cred, tmpl, joinConfig, probed, written, executed, returned,
                   calls, outputs, patched, patchErr, lockedIO>>
    /\ UNCHANGED pureVars

\* deleteMasters, lines 447-452: the error of deleteMaster is logged and the
\* task returns nil to the errgroup.
TaskResultPropagated(m, r) == IF r = "nil" THEN NoErr ELSE Error(r, m)

TaskResult(m, r) == NoErr

\* deleteMaster(m) returns r.
DeleteReturns(m, r) ==
    /\ dpc' = [dpc EXCEPT ![m] = "returned"]
    /\ dres' = [dres EXCEPT ![m] = r]
    /\ egErr' = FirstError(TaskResult(m, r))

delFrame == <<op, masters, pc, err, cfg, cluster, next>>
joinFrame == <<idx, attempt, cmdIdx, joinCmd, cmds, task, mutex, cred, tmpl,
               joinConfig, probed, written, executed, returned, calls, outputs, patched, patchErr,
               lockedIO>>

\* deleteMaster, lines 487 and 507: `return err` when the master cannot be
\* reached for its cleanup.
CleanupFailureSkipped(m, r) ==
    /\ dpc' = [dpc EXCEPT ![m] = IF Len(Remaining(m)) > 0
                                 THEN "getNodes" ELSE "lvs"]
    /\ dres' = [dres EXCEPT ![m] = r]
    /\ egErr' = egErr

CleanupFailure(m, r) == DeleteReturns(m, r)

\* deleteMaster, lines 485-488.
DeleteClient(m) ==
    /\ dpc[m] = "client"
    /\ ~crashed
    /\ \E ok \in BOOLEAN :
          IF ok
          THEN dpc' = [dpc EXCEPT ![m] = "cleanup"] /\ UNCHANGED <<dres, egErr>>
          ELSE CleanupFailure(m, "sshClient")
    /\ UNCHANGED <<nnext, ntask, nerr, bundle, nodeName, deleted, manifest, crashed>>
    /\ UNCHANGED <<delFrame, joinFrame, pureVars>>

\* deleteMaster, lines 505-517.
DeleteCleanup(m) ==
    /\ dpc[m] = "cleanup"
    /\ ~crashed
    /\ bundle' = [bundle EXCEPT ![m] = CleanBundle(m)]
    /\ \E ok \in BOOLEAN :
          IF ok
          THEN /\ dpc' = [dpc EXCEPT ![m] = IF Len(Remaining(m)) > 0
                                            THEN "getNodes" ELSE "lvs"]
               /\ UNCHANGED <<dres, egErr>>
          ELSE CleanupFailure(m, "cleanup")
    /\ UNCHANGED <<nnext, ntask, nerr, nodeName, deleted, manifest, crashed>>
    /\ UNCHANGED <<delFrame, joinFrame, pureVars>>

\* isHostName, lines 459-462: kubectl get nodes on master0.
DeleteGetNodes(m) ==
    /\ dpc[m] = "getNodes"
    /\ ~crashed
    /\ \E ok \in BOOLEAN :
          IF ok
          THEN dpc' = [dpc EXCEPT ![m] = "hostname"] /\ UNCHANGED <<dres, egErr>>
          ELSE DeleteReturns(m, "getNodes")
    /\ UNCHANGED <<nnext, ntask, nerr, bundle, nodeName, deleted, manifest, crashed>>
    /\ UNCHANGED <<delFrame, joinFrame, pureVars>>

\* isHostName, lines 463-481: the hostname of m, matched against the node
\* names; the name is empty when no node name matches.
DeleteHostname(m) ==
    /\ dpc[m] = "hostname"
    /\ ~crashed
    /\ \E r \in {"error", "match", "nomatch"} :
          IF r = "error"
          THEN DeleteReturns(m, "hostname") /\ nodeName' = nodeName
          ELSE /\ dpc' = [dpc EXCEPT ![m] = "master0Client"]
               /\ nodeName' = [nodeName EXCEPT
                                  ![m] = IF r = "match" THEN "node" ELSE ""]
               /\ UNCHANGED <<dres, egErr>>
    /\ UNCHANGED <<nnext, ntask, nerr, bundle, deleted, manifest, crashed>>
    /\ UNCHANGED <<delFrame, joinFrame, pureVars>>

\* deleteMaster, lines 522-525.
DeleteMaster0Client(m) ==
    /\ dpc[m] = "master0Client"
    /\ ~crashed
    /\ \E ok \in BOOLEAN :
          IF ok
          THEN dpc' = [dpc EXCEPT ![m] = "deleteNode"] /\ UNCHANGED <<dres, egErr>>
          ELSE DeleteReturns(m, "master0Client")
    /\ UNCHANGED <<nnext, ntask, nerr, bundle, nodeName, deleted, manifest, crashed>>
    /\ UNCHANGED <<delFrame, joinFrame, pureVars>>

\* deleteMaster, lines 527-529: kubectl delete node <name> on master0.
DeleteNode(m) ==
    /\ dpc[m] = "deleteNode"
    /\ ~crashed
    /\ deleted' = deleted \cup {[on |-> Master0, name |-> nodeName[m], of |-> m]}
    /\ \E ok \in BOOLEAN :
          IF ok
          THEN dpc' = [dpc EXCEPT ![m] = "lvs"] /\ UNCHANGED <<dres, egErr>>
          ELSE DeleteReturns(m, "deleteNode")
    /\ UNCHANGED <<nnext, ntask, nerr, bundle, nodeName, manifest, crashed>>
    /\ UNCHANGED <<delFrame, joinFrame, pureVars>>

\* deleteMaster, lines 534-536: eg.Go for every worker node.
NodeGo(m) ==
    /\ dpc[m] = "lvs"
    /\ ~crashed
    /\ nnext[m] < Len(cluster.nodeIPs)
    /\ nnext' = [nnext EXCEPT ![m] = @ + 1]
    /\ ntask' = [ntask EXCEPT ![m][cluster.nodeIPs[nnext[m] + 1]] = "client"]
    /\ UNCHANGED <<dpc, dres, egErr, nerr, bundle, nodeName, deleted, manifest,
                   crashed>>
    /\ UNCHANGED <<delFrame, joinFrame, pureVars>>

\* deleteMaster, lines 537-540: a failed acquisition is logged and the task
\* goes on to call CmdAsync through the client it did not get.
NodeClient(m, n) ==
    /\ ntask[m][n] = "client"
    /\ ~crashed
    /\ \E ok \in BOOLEAN :
          ntask' = [ntask EXCEPT ![m][n] = IF ok THEN "cmd" ELSE "cmdNoClient"]
    /\ UNCHANGED <<dpc, dres, egErr, nnext, nerr, bundle, nodeName, deleted,
                   manifest, crashed>>
    /\ UNCHANGED <<delFrame, joinFrame, pureVars>>

\* deleteMaster, lines 541-544, with a client: a failure is logged, and the
\* err returned is the one of line 537, nil here.
NodeCmd(m, n) ==
    /\ ntask[m][n] = "cmd"
    /\ ~crashed
    /\ \E ok \in BOOLEAN :
          IF ok
          THEN /\ manifest' = [manifest EXCEPT ![n] = Remaining(m)]
               /\ ntask' = [ntask EXCEPT ![m][n] = "returned"]
          ELSE /\ manifest' = manifest
               /\ ntask' = [ntask EXCEPT ![m][n] = "logged"]
    /\ UNCHANGED <<dpc, dres, egErr, nnext, nerr, bundle, nodeName, deleted,
                   crashed>>
    /\ UNCHANGED <<delFrame, joinFrame, pureVars>>

\* deleteMaster, lines 541-544, without a client: the method call on the nil
\* client panics; were the client not nil, the call would be made and the
\* acquisition error of line 537 returned.
NodeCmdNoClient(m, n) ==
    /\ ntask[m][n] = "cmdNoClient"
    /\ ~crashed
    /\ \E outcome \in {"panic", "called"} :
          IF outcome = "panic"
          THEN /\ crashed' = TRUE
               /\ ntask' = [ntask EXCEPT ![m][n] = "panic"]
               /\ nerr' = nerr
          ELSE /\ crashed' = crashed
               /\ ntask' = [ntask EXCEPT ![m][n] = "returned"]
               /\ nerr' = [nerr EXCEPT ![m] = IF @ = NoErr
                                             THEN Error("sshClient", n) ELSE @]
    /\ UNCHANGED <<dpc, dres, egErr, nnext, bundle, nodeName, deleted, manifest>>
    /\ UNCHANGED <<delFrame, joinFrame, pureVars>>

\* deleteMaster, line 547: return eg.Wait().
NodeWait(m) ==
    /\ dpc[m] = "lvs"
    /\ ~crashed
    /\ nnext[m] = Len(cluster.nodeIPs)
    /\ \A n \in Range(cluster.nodeIPs) : ntask[m][n] \in {"returned", "logged"}
    /\ DeleteReturns(m, IF nerr[m] = NoErr THEN "nil" ELSE "lvs")
    /\ UNCHANGED <<nnext, ntask, nerr, bundle, nodeName, deleted, manifest, crashed>>
    /\ UNCHANGED <<delFrame, joinFrame, pureVars>>

\* deleteMasters, line 455: return eg.Wait().
DeleteWait ==
    /\ pc = "deleteMasters"
    /\ ~crashed
    /\ next = Len(masters)
    /\ \A m \in Range(masters) : dpc[m] = "returned"
    /\ Return(egErr)
    /\ UNCHANGED <<op, masters, cfg, next, egErr>>
    /\ UNCHANGED <<joinFrame, delVars, pureVars>>

\* The masters of the cluster, and the lists of them a call can delete.
MasterLists == {<<Master0>>, [i \in 1..(MaxTargets + 1) |-> i]}
NodeLists == {[i \in 1..n |-> MaxTargets + 1 + i] : n \in 0..MaxNodes}
DeleteLists(ms) ==
    {l \in {[i \in 1..n |-> i] : n \in 0..MaxTargets}
           \cup {[i \in 1..n |-> i + 1] : n \in 0..MaxTargets} :
        Range(l) \subseteq Range(ms)}

InitDelete ==
    /\ op = "delete"
    /\ cred = NoCred
    /\ call = NoCall
    /\ cfg \in {c \in Configs : c.kubeVersion = V1230 /\ c.User = ROOT
                                /\ ~c.Username /\ ~c.Password}
    /\ cluster \in [masterIPs : MasterLists, nodeIPs : NodeLists,
                    local : {NoHost, Master0, Master0 + 1},
                    addrErr : BOOLEAN]
    /\ cluster.addrErr => cluster.local = Master0 + 1
    /\ masters \in DeleteLists(cluster.masterIPs)
    /\ Len(masters) + Len(cluster.nodeIPs) <= MaxFan
    /\ InitCommon

NextDelete ==
    \/ DeleteStart
    \/ DeleteGo
    \/ \E m \in Hosts : DeleteClient(m)
    \/ \E m \in Hosts : DeleteCleanup(m)
    \/ \E m \in Hosts : DeleteGetNodes(m)
    \/ \E m \in Hosts : DeleteHostname(m)
    \/ \E m \in Hosts : DeleteMaster0Client(m)
    \/ \E m \in Hosts : DeleteNode(m)
    \/ \E m \in Hosts : NodeGo(m)
    \/ \E m \in Hosts, n \in Nodes : NodeClient(m, n)
    \/ \E m \in Hosts, n \in Nodes : NodeCmd(m, n)
    \/ \E m \in Hosts, n \in Nodes : NodeCmdNoClient(m, n)
    \/ \E m \in Hosts : NodeWait(m)
    \/ DeleteWait

SpecDelete == InitDelete /\ [][NextDelete]_vars

\* Fair scheduling: a goroutine that can take a step eventually takes one, and
\* a remote call eventually returns.
SpecJoinFair == SpecJoin /\ WF_vars(NextJoin)
SpecDeleteFair == SpecDelete /\ WF_vars(NextDelete)

\* A run of the runtime is one call of joinMasters or of deleteMasters.
InitRuntime == InitJoin \/ InitDelete
NextRuntime == NextJoin \/ NextDelete
SpecRuntime == InitRuntime /\ [][NextRuntime]_vars

\* ------------------------------------------------------- Runtime.Command
\* The versions and names Command is called with: below, at and above the
\* threshold, and a version string that does not parse; the three command
\* types and a name that is none of them.
Versions == {<<0, 99, 99>>, <<1, 14, 9>>, <<1, 15, 0>>, <<1, 15, 1>>,
             <<1, 19, 1>>, <<1, 23, 0>>, <<2, 0, 0>>, <<>>}
Names == CommandTypes \cup {"reset"}
Calls == [version : Versions, name : Names]

InitCommand ==
    /\ op = "command"
    /\ masters = <<>>
    /\ cfg \in [kubeVersion : {V1230}, Username : {FALSE}, Password : {FALSE},
                 User : {ROOT}, Vlog : {0, 5}, inContainer : BOOLEAN]
    /\ cluster = [masterIPs |-> <<Master0>>, nodeIPs |-> <<>>,
                  local |-> NoHost, addrErr |-> FALSE]
    /\ cred = [CertificateKey |-> 7, JoinToken |-> 8, TokenCaCertHash |-> 9]
    /\ call \in Calls
    /\ InitCommon

\* cmd := k.Command(version, name)
CallCommand ==
    /\ op = "command"
    /\ pc = "start"
    /\ result' = Command(call.version, call.name, cfg, cred)
    /\ pc' = "done"
    /\ UNCHANGED <<op, masters, err, cfg, call, htask>>
    /\ UNCHANGED <<joinVars, delVars>>

NextCommand == CallCommand

SpecCommand == InitCommand /\ [][NextCommand]_vars

\* ------------------------------------------- the certificate key's parse
\* The output of the upload-certs command is a string over four symbols: the
\* marker "Using certificate key:", a character of the key, a carriage
\* return and a line feed.
Marker == "Using certificate key:"
CR == "CR"
LF == "LF"
Symbols == {Marker, "k", CR, LF}
UploadStrings == UNION {[1..n -> Symbols] : n \in 0..MaxOut}

\* strings.Split(output, "Using certificate key:")
RECURSIVE Split(_)
Split(s) ==
    IF \A i \in IndexSet(s) : s[i] # Marker THEN <<s>>
    ELSE LET i == CHOOSE j \in IndexSet(s) :
                     s[j] = Marker /\ \A l \in 1..(j - 1) : s[l] # Marker
         IN  <<SubSeq(s, 1, i - 1)>> \o Split(SubSeq(s, i + 1, Len(s)))

\* strings.Replace(slice[1], "\r\n", "", -1)
RECURSIVE ReplaceCRLF(_)
ReplaceCRLF(s) ==
    IF Len(s) = 0 THEN s
    ELSE IF Len(s) >= 2 /\ s[1] = CR /\ s[2] = LF
         THEN ReplaceCRLF(Tail(Tail(s)))
         ELSE <<s[1]>> \o ReplaceCRLF(Tail(s))

\* strings.Replace(key, "\n", "", -1)
ReplaceLF(s) == SelectSeq(s, LAMBDA c : c # LF)

InitParse ==
    /\ op = "parse"
    /\ masters = <<>>
    /\ cfg \in [kubeVersion : {V1230}, Username : {FALSE}, Password : {FALSE},
                 User : {ROOT}, Vlog : {0}, inContainer : {FALSE}]
    /\ cluster = [masterIPs |-> <<Master0>>, nodeIPs |-> <<>>,
                  local |-> NoHost, addrErr |-> FALSE]
    /\ cred = NoCred
    /\ call \in [output : UploadStrings]
    /\ InitCommon

\* GetJoinTokenHashAndKey, lines 557-568, on the output call.output; the
\* same output is parsed a second time, and result keeps the first key.
ParseKey ==
    /\ op = "parse"
    /\ pc \in {"start", "parsed"}
    /\ LET slice == Split(call.output)
       IN  IF Len(slice) # 2
           THEN /\ Return(Error("certificateKey", FetchHost))
                /\ UNCHANGED <<cred, result>>
           ELSE /\ cred' = [cred EXCEPT
                               !.CertificateKey = ReplaceLF(ReplaceCRLF(slice[2]))]
                /\ result' = IF pc = "start" THEN [key |-> cred'.CertificateKey]
                             ELSE result
                /\ pc' = IF pc = "start" THEN "parsed" ELSE "done"
                /\ err' = err
    /\ UNCHANGED <<op, masters, cfg, call, htask>>
    /\ UNCHANGED <<idx, attempt, cmdIdx, joinCmd, cmds, next, task, egErr, mutex,
                   tmpl, joinConfig, probed, written, executed, returned,
                   calls, outputs, patched, patchErr, lockedIO>>
    /\ UNCHANGED delVars

NextParse == ParseKey

SpecParse == InitParse /\ [][NextParse]_vars

\* ------------------------------------------------------------ CmdAsyncHosts
\* The host lists CmdAsyncHosts is called with: masters and workers.
HostLists == {[i \in 1..n |-> i + 1] : n \in 0..(MaxTargets + 1)}

InitHosts ==
    /\ op = "cmdAsyncHosts"
    /\ masters \in HostLists
    /\ cfg \in [kubeVersion : {V1230}, Username : {FALSE}, Password : {FALSE},
                 User : {ROOT}, Vlog : {0}, inContainer : {FALSE}]
    /\ cluster = [masterIPs |-> <<Master0>>, nodeIPs |-> <<>>,
                  local |-> NoHost, addrErr |-> FALSE]
    /\ cred = NoCred
    /\ call = NoCall
    /\ InitCommon

\* What the actions of CmdAsyncHosts leave alone.
hostsFrame == <<op, masters, cfg, call, result, joinFrame, cluster, dpc, dres,
                nnext, ntask, nerr, bundle, nodeName, deleted, manifest>>

\* CmdAsyncHosts, lines 316-318: eg.Go for every host of the list.
HostsGo ==
    /\ op = "cmdAsyncHosts"
    /\ pc = "start"
    /\ ~crashed
    /\ next < Len(masters)
    /\ next' = next + 1
    /\ htask' = [htask EXCEPT ![masters[next + 1]] = "client"]
    /\ UNCHANGED <<pc, err, egErr, crashed, hostsFrame>>

\* CmdAsyncHosts, lines 319-322: a failed acquisition is logged and the task
\* goes on.
HostsClient(h) ==
    /\ htask[h] = "client"
    /\ ~crashed
    /\ \E ok \in BOOLEAN :
          htask' = [htask EXCEPT ![h] = IF ok THEN "cmd" ELSE "cmdNoClient"]
    /\ UNCHANGED <<pc, err, next, egErr, crashed, hostsFrame>>

\* CmdAsyncHosts, lines 323-326, with a client: a failure of the command is
\* logged; the err returned is the one of line 319, nil here.
HostsCmd(h) ==
    /\ htask[h] = "cmd"
    /\ ~crashed
    /\ \E ok \in BOOLEAN :
          htask' = [htask EXCEPT ![h] = IF ok THEN "ok" ELSE "logged"]
    /\ UNCHANGED <<pc, err, next, egErr, crashed, hostsFrame>>

\* CmdAsyncHosts, lines 323-326, without a client: the method call on the nil
\* client panics; were the client not nil, the call would be made and the
\* acquisition error of line 319 returned.
HostsCmdNoClient(h) ==
    /\ htask[h] = "cmdNoClient"
    /\ ~crashed
    /\ \E outcome \in {"panic", "called"} :
          IF outcome = "panic"
          THEN /\ crashed' = TRUE
               /\ htask' = [htask EXCEPT ![h] = "panic"]
               /\ egErr' = egErr
          ELSE /\ crashed' = crashed
               /\ htask' = [htask EXCEPT ![h] = "called"]
               /\ egErr' = FirstError(Error("sshClient", h))
    /\ UNCHANGED <<pc, err, next, hostsFrame>>

\* CmdAsyncHosts, line 329: return eg.Wait().
HostsWait ==
    /\ op = "cmdAsyncHosts"
    /\ pc = "start"
    /\ ~crashed
    /\ next = Len(masters)
    /\ \A h \in Range(masters) : htask[h] \in {"ok", "logged", "called"}
    /\ Return(egErr)
    /\ UNCHANGED <<next, egErr, crashed, htask, hostsFrame>>

NextHosts ==
    \/ HostsGo
    \/ \E h \in Hosts : HostsClient(h)
    \/ \E h \in Hosts : HostsCmd(h)
    \/ \E h \in Hosts : HostsCmdNoClient(h)
    \/ HostsWait

SpecHosts == InitHosts /\ [][NextHosts]_vars

\* ------------------------------------------------------------- properties
Dispatched(s) == {h \in Hosts : task[s][h] # "new"}
StageDone(s) == \A h \in Range(masters) : task[s][h] = "ok"
FetchStarted == \E h \in Hosts : calls[h].upload > 0 \/ calls[h].token > 0
FetchDone == calls[Master0] = [upload |-> 1, token |-> 1]
ExecStarted == \/ pc \in {"joinClient", "CmdAsync"}
               \/ \E h \in Hosts : executed[h] # <<>>
Ops(h) == [i \in IndexSet(executed[h]) |-> executed[h][i].op]
IsPrefix(p, q) == Len(p) <= Len(q) /\ \A i \in IndexSet(p) : p[i] = q[i]

\* No remote operation of the join pipeline after the reachability wait.
NoJoinOps ==
    /\ calls = NoCalls
    /\ task = NewTasks
    /\ patched = {}
    /\ \A h \in Hosts : written[h] = NoDoc /\ executed[h] = <<>>

\* C1: in one joinMasters call the upload-certs and the token-create command
\* each run at most once, on master0 only and before any target is touched,
\* and the token, hash and certificate key every target gets (in its config
\* document or in its join command) are the ones of that single fetch.
C1_FetchOnce ==
    /\ \A h \in Hosts \ {Master0} : calls[h] = [upload |-> 0, token |-> 0]
    /\ calls[Master0].upload <= 1 /\ calls[Master0].token <= 1
    /\ (ExecStarted \/ \E s \in FanSet : Dispatched(s) # {}) => FetchDone
    /\ \A h \in Hosts :
          /\ written[h] # NoDoc => written[h].token = cred.JoinToken
          /\ \A i \in IndexSet(executed[h]) :
                executed[h][i].op = "kubeadm" /\ ~executed[h][i].a.config
                => /\ executed[h][i].a.token = cred.JoinToken
                   /\ executed[h][i].a.hash = cred.TokenCaCertHash
                   /\ executed[h][i].a.key = cred.CertificateKey
                   /\ cred.CertificateKey = 1

C1_Witness ==
    /\ pc = "done" /\ err = NoErr /\ Len(masters) = 2
    /\ calls[Master0] = [upload |-> 1, token |-> 1]
    /\ ~joinCmd.config /\ joinCmd.verb = "join"

\* C2: a task of a fan-out stage is started only once the credentials are
\* fetched and every task of every earlier fan-out has returned without
\* error; the join loop starts only once every fan-out task has; so after a
\* failed task no later stage is started.
C2_StageOrder ==
    /\ FetchStarted => attempt < TryTimes /\ pc # "WaitSSHReady"
    /\ \A i \in IndexSet(FanStages) :
          Dispatched(FanStages[i]) # {}
          => FetchDone /\ \A j \in 1..(i - 1) : StageDone(FanStages[j])
    /\ ExecStarted => \A s \in FanSet : StageDone(s)
    /\ \A i \in IndexSet(FanStages) :
          (\E h \in Hosts : task[FanStages[i]][h] = "fail")
          => /\ ~ExecStarted
             /\ \A j \in (i + 1)..Len(FanStages) : Dispatched(FanStages[j]) = {}

C2_Witness ==
    /\ Len(masters) = 2
    /\ pc = "done"
    /\ task["sendNewCertAndKey"][2] = "ok"
    /\ task["sendNewCertAndKey"][3] = "fail"

\* C3: when a target is still unreachable after TryTimes pings, joinMasters
\* returns the wrapped timeout error of that target and has run no credential
\* fetch, file copy, config write, patch or join command on any host.
C3_NoPartialJoin ==
    /\ attempt <= TryTimes
    /\ attempt = TryTimes
       => /\ pc = "done"
          /\ err = Error("sshReadyTimeout", masters[idx])
          /\ NoJoinOps

C3_Witness == attempt = TryTimes /\ idx = 2 /\ pc = "done"

\* C4: the document rendered for, and the one written to, host h carry h's
\* advertise address and the cgroup driver probed on h, and at most one
\* worker is between stamping the template and marshalling it.
C4_OwnConfig ==
    /\ \A h \in Hosts :
          /\ joinConfig[h] # NoDoc
             => /\ joinConfig[h].advertise = h
                /\ joinConfig[h].cgroup = probed[h]
                /\ joinConfig[h].endpoint = Master0
          /\ written[h] # NoDoc => written[h] = joinConfig[h]
    /\ Cardinality({h \in Hosts : task[Render][h] \in {"probe", "marshal"}}) <= 1

C4_Witness ==
    /\ written[2] # NoDoc /\ written[3] # NoDoc
    /\ probed[2] = "systemd" /\ probed[3] = "cgroupfs"

\* C5 as claimed: no remote call of a render worker is made while the worker
\* holds the lock.
C5_NoLockedIO == lockedIO = {}

\* C5, amended: the write of the rendered document is made without the lock,
\* but the cgroup-driver probe of the target is made while holding it.
C5_OnlyProbeLocked ==
    /\ \A x \in lockedIO : x[1] = "probe"
    /\ \A h \in Hosts : probed[h] # "" => <<"probe", h>> \in lockedIO
    /\ \A h \in Hosts : task[Render][h] \in {"client", "write", "ok"} => mutex # h

C5_Witness == <<"probe", 2>> \in lockedIO /\ written[2] # NoDoc

\* C6 as claimed: once a task of a fan-out has failed, no host that was not
\* started yet is dispatched.
C6_NoDispatchAfterFailure ==
    [][(pc \in FanSet /\ egErr # NoErr)
       => \A h \in Hosts : task[pc][h] = "new" => task'[pc][h] = "new"]_vars

\* C6, amended: a fan-out one of whose tasks failed returns the error of a
\* failed task, and when it returns every host of the list has been
\* dispatched and its task has run to its end.
C6_ErrorAfterAllRan ==
    \A s \in FanSet :
       (\E h \in Hosts : task[s][h] = "fail") /\ pc # s
       => /\ pc = "done"
          /\ err # NoErr
          /\ err.host \in Range(masters) /\ task[s][err.host] = "fail"
          /\ \A h \in Range(masters) : task[s][h] \in Finished

C6_Witness ==
    /\ pc = "done"
    /\ err = Error("sendFile", 2)
    /\ task["CopyStaticFiles"][2] = "fail"
    /\ task["CopyStaticFiles"][3] = "ok"

\* C8: the join loop handles the masters in list order, one at a time: a
\* command runs on a master only after the bundle of every earlier master
\* has returned, and at most one bundle is in flight.
C8_OneAtATime ==
    /\ \A i, j \in IndexSet(masters) :
          i < j /\ executed[masters[j]] # <<>> => masters[i] \in returned
    /\ Cardinality({h \in Hosts : executed[h] # <<>> /\ h \notin returned}) <= 1

C8_Witness == 2 \in returned /\ executed[3] # <<>> /\ 3 \notin returned

\* The order of the bundle as the specification states it.
StatedOrder(c) ==
    <<"addRegistryHosts", "remoteCerts", "addEtcHosts">>
    \o (IF c.Username /\ c.Password THEN <<"registryLogin">> ELSE <<>>)
    \o <<"kubeadm", "updateEtcHosts", "copyKubeConfig">>
    \o (IF c.User # ROOT THEN <<"nonRootCopyKubeConfig">> ELSE <<>>)

\* C9: the commands run on a joining master follow the stated order, with the
\* login present iff username and password are both set and the non-root
\* copy last iff the SSH user is not root; the API-server entry points at
\* master0 first and is rewritten to the master's own address only after the
\* join command.
C9_BundleOrder ==
    \A h \in Hosts :
       /\ IsPrefix(Ops(h), StatedOrder(cfg))
       /\ \A i \in IndexSet(executed[h]) :
             /\ executed[h][i].op = "addEtcHosts" => executed[h][i].a = Master0
             /\ executed[h][i].op = "remoteCerts" => executed[h][i].a = h
             /\ executed[h][i].op = "updateEtcHosts"
                => /\ executed[h][i].a = Master0 /\ executed[h][i].b = h
                   /\ \E j \in 1..(i - 1) : executed[h][j].op = "kubeadm"

C9_Witness == Len(executed[2]) = 8 /\ 2 \in returned /\ pc # "done"

\* C10 as claimed: a failure of the bundle on master k aborts the processing
\* of that master only, so every later master of the list is still processed.
C10_AbortsThatMasterOnly ==
    pc = "done" /\ err.kind = "joinExec"
    => \A j \in IndexSet(masters) : j > idx => executed[masters[j]] # <<>>

\* C10, amended: the failure makes joinMasters return at once with an error
\* naming master k: the masters joined before k keep their complete bundle
\* and get no reset or cleanup command, and the masters after k are never
\* processed.
C10_ReturnsAtOnce ==
    pc = "done" /\ err.kind = "joinExec"
    => /\ err.host = masters[idx]
       /\ executed[err.host] # <<>>
       /\ \A i \in 1..(idx - 1) : Ops(masters[i]) = StatedOrder(cfg)
       /\ \A j \in (idx + 1)..Len(masters) : executed[masters[j]] = <<>>
       /\ \A h \in Hosts : bundle[h] = <<>>
       /\ \A h \in Hosts : \A i \in IndexSet(executed[h]) :
             executed[h][i].op # "cleanMasterOrNode"

C10_Witness ==
    /\ pc = "done" /\ err = Error("joinExec", 2)
    /\ Len(masters) = 2 /\ executed[3] = <<>>

\* A step of deleteMaster(k) failed.
DeleteFailed(k) ==
    \/ dres[k] \notin {"none", "nil"}
    \/ \E n \in Hosts : ntask[k][n] \in {"cmdNoClient", "panic"}

\* C7 as claimed: whatever step of the deletion of master k fails, the
\* deletion of every other target master can still run to its end and
\* deleteMasters returns nil.
C7_BestEffort ==
    /\ pc = "done" => err = NoErr
    /\ \A k \in Range(masters) :
          DeleteFailed(k)
          => \A m \in Range(masters) \ {k} : ~crashed \/ dpc[m] = "returned"

\* The credential fetch got output it cannot parse: the upload-certs output
\* holds zero or several markers, or the token output holds no join command.
FetchUnparsable ==
    \/ outputs.upload \in {"markers0", "markers2"}
    \/ outputs.token = "malformed"

\* C11 as claimed: a credential fetch whose output cannot be parsed is fatal:
\* GetJoinTokenHashAndKey returns an error and joinMasters distributes no
\* file, writes no config and runs no join command on any target.
C11_FetchFailureFatal ==
    FetchUnparsable
    => /\ pc = "done" /\ err # NoErr
       /\ task = NewTasks
       /\ \A h \in Hosts : written[h] = NoDoc /\ executed[h] = <<>>

\* C12: when the master being deleted is the only master of the cluster's
\* master list, `kubectl delete node` is not invoked on any host for it, nor
\* is the node name looked up.
C12_NoDeleteNodeForLastMaster ==
    \A m \in Hosts :
       Range(cluster.masterIPs) \ {m} = {}
       => /\ \A r \in deleted : r.of # m
          /\ dpc[m] \notin {"getNodes", "hostname", "master0Client", "deleteNode"}

C12_Witness ==
    /\ cluster.masterIPs = <<Master0>> /\ masters = <<Master0>>
    /\ bundle[Master0] # <<>>
    /\ dpc[Master0] = "returned" /\ dres[Master0] = "nil"

\* C13 as claimed: `kubectl delete node` for master m is executed on the
\* first remaining master, a master other than m.
C13_OnRemainingMaster ==
    \A r \in deleted :
       /\ r.on # r.of
       /\ r.on = Remaining(r.of)[1]

\* Every remote call of the deleteMasters call succeeded.
AllCallsSucceeded ==
    \A m \in Range(masters) :
       /\ dres[m] = "nil"
       /\ \A n \in Range(cluster.nodeIPs) : ntask[m][n] = "returned"

\* C14 as claimed: after deleteMasters(D) with every remote call succeeding,
\* the manifest last written to each worker lists exactly the masters not in
\* D.
C14_ManifestExcludesDeleted ==
    pc = "done" /\ masters # <<>> /\ AllCallsSucceeded
    => \A n \in Range(cluster.nodeIPs) :
          Range(manifest[n]) = Range(cluster.masterIPs) \ Range(masters)

\* The cleanup of master m could not reach it.
Unreachable(m) == dres[m] \in {"sshClient", "cleanup"}

\* C15 as claimed: when the master cannot be reached for cleanup, deleteMaster
\* still issues `kubectl delete node` (when a master remains) and refreshes
\* the manifest on the workers.
C15_ProceedsToBookkeeping ==
    \A m \in Range(masters) :
       dpc[m] = "returned" /\ Unreachable(m)
       => /\ Range(cluster.masterIPs) \ {m} # {} => \E r \in deleted : r.of = m
          /\ nnext[m] = Len(cluster.nodeIPs)

\* C15, amended: when the master cannot be reached for cleanup, deleteMaster
\* returns the error at once: it issues no `kubectl delete node` for the
\* master and starts no manifest refresh on any worker.
C15_ReturnsBeforeBookkeeping ==
    \A m \in Hosts :
       Unreachable(m)
       => /\ dpc[m] = "returned"
          /\ \A r \in deleted : r.of # m
          /\ nnext[m] = 0
          /\ \A n \in Hosts : ntask[m][n] = "new"

C15_Witness ==
    /\ pc = "done" /\ dres[2] = "cleanup"
    /\ cluster.masterIPs = <<1, 2, 3>> /\ cluster.nodeIPs # <<>>

\* C16: the cleanup bundle ends with exactly one of two commands: on the
\* local execution host the re-adding of the API-server /etc/hosts entry and
\* no kubeconfig removal; on any other host, and when the local addresses
\* cannot be determined, the kubeconfig removal and no /etc/hosts re-adding.
C16_BundleEnding ==
    \A m \in Hosts :
       bundle[m] # <<>>
       => LET b == bundle[m]
              I(o) == {i \in IndexSet(b) : b[i].op = o}
          IN  IF cluster.local = m /\ ~cluster.addrErr
              THEN /\ I("addEtcHosts") = {Len(b)}
                   /\ b[Len(b)].a = Master0
                   /\ I("removeKubeConfig") = {}
              ELSE /\ I("removeKubeConfig") = {Len(b)}
                   /\ I("addEtcHosts") = {}

C16_Witness ==
    /\ cluster.local = Master0 /\ ~cluster.addrErr
    /\ bundle[Master0] # <<>> /\ bundle[Master0 + 1] # <<>>
    /\ dpc[Master0] = "returned" /\ dpc[Master0 + 1] = "returned"

\* Command has returned the command of a known role / for a version string
\* that parses.
Built == pc = "done" /\ call.name \in {InitMaster, JoinMaster, JoinNode}
AtLeast1150(v) == v[1] * 10000 + v[2] * 100 + v[3] >= 11500
Interpolated ==
    /\ ~result.config
    /\ result.token = cred.JoinToken
    /\ result.hash = cred.TokenCaCertHash
    /\ call.name = JoinMaster => result.key = cred.CertificateKey

\* C17 as claimed: for each of the three roles Command selects the
\* config-file template from version 1.15.0 on, and below 1.15.0 the
\* explicit-flag template with token, CA cert hash and (for JoinMaster)
\* certificate key interpolated.
C17_TemplateByVersion ==
    Built /\ Len(call.version) = 3
    => IF AtLeast1150(call.version) THEN result.config ELSE Interpolated

\* C17, amended: that holds for JoinMaster and JoinNode; for InitMaster both
\* templates are config-file templates with no credential, and the version
\* selects --upload-certs (from 1.15.0 on) or --experimental-upload-certs.
C17_JoinTemplateByVersion ==
    Built /\ Len(call.version) = 3
    => IF call.name = InitMaster
       THEN /\ result.verb = "init" /\ result.config
            /\ result.token = 0 /\ result.hash = 0 /\ result.key = 0
            /\ result.certs = IF AtLeast1150(call.version)
                              THEN "--upload-certs"
                              ELSE "--experimental-upload-certs"
       ELSE /\ result.verb = "join"
            /\ IF AtLeast1150(call.version)
               THEN /\ result.config
                    /\ result.token = 0 /\ result.hash = 0 /\ result.key = 0
               ELSE /\ Interpolated
                    /\ call.name = JoinNode => result.key = 0

C17_Witness ==
    /\ pc = "done"
    /\ call = [version |-> <<1, 15, 0>>, name |-> JoinMaster]
    /\ result.config

\* C18: the command of a known role carries -v <Vlog> and one preflight
\* policy: --ignore-preflight-errors=all in a container, whatever the role;
\* otherwise =SystemVerification for InitMaster and JoinMaster and no
\* ignore-preflight flag for JoinNode.
C18_VlogAndPreflight ==
    Built
    => /\ result.vlog = [flag |-> "-v", level |-> cfg.Vlog]
       /\ result.preflight =
             IF cfg.inContainer THEN "all"
             ELSE IF call.name \in {InitMaster, JoinMaster}
                  THEN "SystemVerification" ELSE ""

C18_Witness ==
    /\ pc = "done" /\ call.name = JoinNode /\ ~cfg.inContainer
    /\ result.verb = "join" /\ result.preflight = ""
    /\ result.vlog.level = 5

C20_PatchOnlyQuirkLogged ==
    /\ patched \cup patchErr # {} \/ pc \in {"ReplaceClient", "ReplaceCmd"}
       => cfg.kubeVersion \in {<<1, 19, 1>>, <<1, 19, 2>>}
    /\ patchErr # {}
       => /\ err.kind # "replaceKubeConfig"
          /\ \/ pc = "sendRegistryCert_domain" /\ err = NoErr
             \/ Dispatched("sendRegistryCert_domain") # {}

C20_Witness ==
    /\ cfg.kubeVersion = <<1, 19, 2>> /\ masters = <<2, 3>>
    /\ patchErr = {2} /\ 3 \notin patched
    /\ pc = "done" /\ err = NoErr /\ returned = {2, 3}

\* C21 as claimed: the quirk patch of a master is applied after that
\* master's join config has been written.
C21_PatchAfterJoinConfig ==
    \A h \in patched \cup patchErr : written[h] # NoDoc

\* C21, amended: the quirk patch runs inside SendJoinMasterKubeConfigs: after
\* the static files and the three kubeconfigs are on every target, and before
\* the registry certificates, the PKI and the join config are sent and any
\* join command runs; join commands run only after every join config is
\* written.
C21_PatchAfterKubeConfigs ==
    /\ pc \in {"ReplaceClient", "ReplaceCmd"}
       => /\ Dispatched("sendRegistryCert_domain") = {}
          /\ Dispatched("sendNewCertAndKey") = {}
          /\ \A h \in Hosts : written[h] = NoDoc /\ executed[h] = <<>>
    /\ patched \cup patchErr # {} \/ pc \in {"ReplaceClient", "ReplaceCmd"}
       => \A i \in 1..StageNo("sendKubeConfigFile_scheduler") :
             StageDone(FanStages[i])
    /\ (\E h \in Hosts : executed[h] # <<>>)
       => \A s \in FanSet : StageDone(s)

C21_Witness ==
    /\ masters = <<2, 3>> /\ pc = "ReplaceCmd" /\ idx = 2
    /\ patched = {2} /\ written[2] = NoDoc

\* C22: joinMasters and deleteMasters called with an empty list return nil at
\* once: no remote command or copy on any host, no credential fetch, and the
\* credentials and the join configuration are as before the call.
C22_EmptyListNoOp ==
    masters = <<>>
    => /\ pc \in {"start", "done"}
       /\ err = NoErr
       /\ NoJoinOps /\ patchErr = {} /\ lockedIO = {}
       /\ cred = NoCred /\ tmpl = NoDoc
       /\ \A h \in Hosts :
             /\ dpc[h] = "new" /\ bundle[h] = <<>> /\ manifest[h] = <<>>
             /\ probed[h] = ""
       /\ deleted = {}
       /\ ~crashed

C22_Witness == op = "join" /\ masters = <<>> /\ pc = "done" /\ err = NoErr

\* C23 as claimed: for an output with exactly one marker the stored
\* certificate key holds no carriage return and no line feed, and a second
\* parse of the same output gives the same key.
C23_NoLineBreak ==
    op = "parse" /\ pc \in {"parsed", "done"} /\ err = NoErr
    => /\ \A i \in IndexSet(cred.CertificateKey) :
             cred.CertificateKey[i] \notin {CR, LF}
       /\ cred.CertificateKey = result.key

\* C24 as claimed: once a task of a fan-out has failed, the fan-out can
\* return to its caller without waiting for the sibling tasks.
C24_ReturnsWithoutWaiting ==
    pc \in FanSet /\ next = Len(masters) /\ egErr # NoErr => ENABLED Wait

\* C24, amended: a fan-out returns, with or without a failure, only when
\* every sibling task has run to its end; it never terminates a remote call
\* in flight: after a sibling's failure a copy in flight can still complete,
\* and a task is in flight only while its caller is waiting in that fan-out.
C24_WaitsNeverKills ==
    /\ pc \in FanSet /\ ENABLED Wait
       => \A h \in Range(masters) : task[pc][h] \in Finished
    /\ \A s \in FanSet : \A h \in Hosts :
          task[s][h] \notin Finished \cup {"new"}
          => /\ pc = s
             /\ task[s][h] = "copy" => ENABLED FileCopy(s, h)

C24_Witness ==
    /\ pc = "CopyStaticFiles" /\ egErr = Error("sendFile", 2)
    /\ task[pc][2] = "fail" /\ task[pc][3] = "copy"

\* The manifest refresh of deleteMaster(m) failed on a worker: its SSH client
\* could not be acquired, or the remote write failed.
WorkerFailed(m) ==
    \/ \E n \in Hosts : ntask[m][n] \in {"logged", "cmdNoClient", "panic"}
    \/ nerr[m] # NoErr

\* C25 as claimed: a failure of the manifest refresh on one worker is only
\* logged: the refresh of the other workers goes on and deleteMaster does not
\* return an error for it.
C25_WorkerFailureOnlyLogged ==
    \A m \in Range(masters) :
       WorkerFailed(m) => ~crashed /\ dres[m] # "lvs"

\* C26 as claimed: under fair scheduling, with every remote call returning,
\* the call always returns, and when it returns no task it dispatched is
\* still running.
C26_AlwaysReturns ==
    <>(/\ pc = "done"
       /\ \A m \in Hosts : dpc[m] \in {"new", "returned"}
       /\ \A m, n \in Hosts : ntask[m][n] \in {"new", "returned", "logged"})

\* joinMasters always returns under the same fairness.
JoinReturns ==
    <>(pc = "done" /\ \A s \in FanSet : \A h \in Hosts :
                         task[s][h] \in Finished \cup {"new"})

\* GetJoinTokenHashAndKey returned an error of the kinds k.
FetchFailed(k) == pc = "done" /\ err.host = FetchHost /\ err.kind \in k

\* C27 as claimed: whenever GetJoinTokenHashAndKey returns an error, the
\* certificate key, the join token and the CA cert hash are as before the
\* call.
C27_AllOrNothing ==
    FetchFailed({"uploadCerts", "certificateKey", "sshClient", "tokenCreate"})
    => cred = NoCred

\* C27, amended: on every error return the join token and the CA cert hash
\* are as before the call; the certificate key is as before the call when the
\* upload-certs command or the marker parse fails, but when the SSH client of
\* master0 or the token creation fails, the key parsed from the upload-certs
\* output stays stored.
C27_KeyKeptOnLateFailure ==
    /\ FetchFailed({"uploadCerts", "certificateKey", "sshClient", "tokenCreate"})
       => /\ cred.JoinToken = NoCred.JoinToken
          /\ cred.TokenCaCertHash = NoCred.TokenCaCertHash
          /\ tmpl = NoDoc
    /\ FetchFailed({"uploadCerts", "certificateKey"})
       => cred.CertificateKey = NoCred.CertificateKey
    /\ FetchFailed({"sshClient", "tokenCreate"})
       => /\ cred.CertificateKey = calls[FetchHost].upload
          /\ cred.CertificateKey # NoCred.CertificateKey

C27_Witness ==
    /\ pc = "done" /\ err = Error("tokenCreate", Master0)
    /\ outputs = [upload |-> "markers1", token |-> "error"]
    /\ cred.CertificateKey = 1 /\ cred.JoinToken = 0

\* C28 as claimed: a remote command is never invoked through an SSH client
\* whose acquisition for that host failed.
C28_NoCallThroughFailedClient ==
    \A h \in Hosts : htask[h] \notin {"panic", "called"}

\* C30 as claimed: CmdAsyncHosts runs the command on every host of the list
\* and returns an error exactly when, for some host, the SSH client
\* acquisition or the command failed.
C30_ErrorIffSomeHostFailed ==
    op = "cmdAsyncHosts" /\ pc = "done"
    => /\ \A h \in Range(masters) : htask[h] # "new"
       /\ err # NoErr <=> \E h \in Range(masters) : htask[h] # "ok"

\* C29 as claimed: `kubectl delete node <name>` is issued only with the
\* non-empty node name that matches the hostname of the deleted master; when
\* no node name matches, no delete node command is issued.
C29_DeleteNodeNamed ==
    \A r \in deleted : r.name # ""

====
